---- MODULE Spec2Model ----
\* The image scraper of src/backend: the /api/scrape/images endpoint, the
\* scrape pipeline with its pool of download workers, and the listing of a
\* download directory.  Strings are sequences of one-character strings.
EXTENDS Integers, Sequences, FiniteSets, TLC

VARIABLES
    web,        \* the pages of the outside world: page URL -> document (tags)
    net,        \* the resources of the outside world: URL -> possible responses
    probe,      \* a direct call of a pure function: its arguments and value
    files,      \* downloads/: directory name -> (file name -> bytes of the file)
    pc,         \* where the request handler stands ("idle": no request running)
    req,        \* the page URL of the request being handled
    potential_image_urls,   \* scrape_images: the candidates extracted
    futures,    \* scrape_images: one record per submitted download
    finished,   \* as_completed: the futures finished when it was called, not yet yielded
    waiter,     \* as_completed: the futures that finished since, oldest first
    collected,  \* indices of the futures as_completed has yielded
    images_downloaded,      \* scrape_images: the result list
    waiting,    \* the scrape requests that arrived while a handler was running
    nreq,       \* number of requests made so far
    responses,  \* history: what each /scrape/images request answered
    listing,    \* what the last /downloads/{hash} request answered
    nget,       \* history: number of session.get calls made so far
    completion  \* history: the futures whose worker returned a URL, in that order

vars == << web, net, probe, files, pc, req, potential_image_urls, futures,
           finished, waiter, collected, images_downloaded, waiting, nreq,
           responses, listing, nget, completion >>

\* ---------------------------------------------------------------- bounds

\* Number of requests (scrapes and listings) of one behaviour.
MaxRequests == 2
\* Number of candidate links of the large page.
BigDocLen == 11
\* Number of scrape requests that may wait for the event loop at once.
MaxWaiting == 1

\* ------------------------------------------------------- string helpers

None == << >>

UpperAlpha == << "A","B","C","D","E","F","G","H","I","J","K","L","M",
                 "N","O","P","Q","R","S","T","U","V","W","X","Y","Z" >>
LowerAlpha == << "a","b","c","d","e","f","g","h","i","j","k","l","m",
                 "n","o","p","q","r","s","t","u","v","w","x","y","z" >>
Digits == { "0","1","2","3","4","5","6","7","8","9" }

Range(s) == { s[i] : i \in DOMAIN s }

\* str.lower() on one character, then on a string.
LowerChr(c) ==
    IF \E i \in DOMAIN UpperAlpha : UpperAlpha[i] = c
    THEN LowerAlpha[CHOOSE i \in DOMAIN UpperAlpha : UpperAlpha[i] = c]
    ELSE c

LowerStr(s) == [ i \in 1..Len(s) |-> LowerChr(s[i]) ]

StartsWith(s, p) == Len(s) >= Len(p) /\ SubSeq(s, 1, Len(p)) = p

EndsWith(s, x) == Len(s) >= Len(x) /\ SubSeq(s, Len(s) - Len(x) + 1, Len(s)) = x

\* str.rstrip(c), str.lstrip(c): every trailing (leading) c is removed.
RECURSIVE RStrip(_, _)
RStrip(s, c) ==
    IF s # << >> /\ s[Len(s)] = c THEN RStrip(SubSeq(s, 1, Len(s) - 1), c) ELSE s

RECURSIVE LStrip(_, _)
LStrip(s, c) ==
    IF s # << >> /\ Head(s) = c THEN LStrip(Tail(s), c) ELSE s

\* Position of the first (last) c in s, 0 when there is none.
FirstIndex(s, c) ==
    IF c \in Range(s) THEN CHOOSE i \in DOMAIN s : s[i] = c /\ \A j \in 1..(i-1) : s[j] # c
    ELSE 0

LastIndex(s, c) ==
    IF c \in Range(s) THEN CHOOSE i \in DOMAIN s : s[i] = c /\ \A j \in (i+1)..Len(s) : s[j] # c
    ELSE 0

\* str.split(c): the pieces between the occurrences of c.
RECURSIVE Split(_, _)
Split(s, c) ==
    IF FirstIndex(s, c) = 0 THEN << s >>
    ELSE << SubSeq(s, 1, FirstIndex(s, c) - 1) >>
         \o Split(SubSeq(s, FirstIndex(s, c) + 1, Len(s)), c)

\* ------------------------------------------------ pure functions of images.py

\* hashlib.md5(url).hexdigest(): a fixed digest per URL, distinct URLs of the
\* model having distinct digests.
sanitize_url(url) ==
    CASE url = << "h","t","t","p","s",":","/","/","a","/","p" >> -> "0cc1"
      [] url = << "h","t","t","p","s",":","/","/","b","/" >> -> "92eb"
      [] url = << "h","t","t","p","s",":","/","/","g","/" >> -> "b2f5"
      [] OTHER -> "d41d"

\* re.sub(r"\?.*", "", s): everything from the first "?" is removed.
StripQuery(s) ==
    IF FirstIndex(s, "?") = 0 THEN s ELSE SubSeq(s, 1, FirstIndex(s, "?") - 1)

\* os.path.basename: what follows the last "/".
Basename(s) == SubSeq(s, LastIndex(s, "/") + 1, Len(s))

\* The characters re.sub(r"[^a-zA-Z0-9\-.]", "_", ...) keeps.
IsNameChr(c) ==
    c \in Range(UpperAlpha) \cup Range(LowerAlpha) \cup Digits \cup { "-", "." }

sanitize_image_name(image_url) ==
    LET image_name == Basename(StripQuery(image_url))
    IN  [ i \in 1..Len(image_name) |->
            IF IsNameChr(image_name[i]) THEN image_name[i] ELSE "_" ]

resolve_url(url, base_url) ==
    IF ~ StartsWith(url, << "h","t","t","p" >>)
    THEN IF StartsWith(url, << "/","/" >>)
         THEN << "h","t","t","p","s",":" >> \o url
         ELSE IF StartsWith(url, << "/" >>)
              THEN RStrip(base_url, "/") \o << "/" >> \o LStrip(url, "/")
              ELSE RStrip(base_url, "/") \o << "/" >> \o url
    ELSE url

\* "https://" + url.split('/')[2]
base_domain(url) == << "h","t","t","p","s",":","/","/" >> \o Split(url, "/")[3]

image_extensions ==
    { << ".","j","p","g" >>, << ".","j","p","e","g" >>, << ".","p","n","g" >>,
      << ".","g","i","f" >>, << ".","b","m","p" >>, << ".","w","e","b","p" >> }

HasImageExtension(s) == \E ext \in image_extensions : EndsWith(LowerStr(s), ext)

\* The loop over soup.find_all(['img', 'a']) and over ['href', 'src'].
AttrsOf(tag) ==
    IF tag.name \in { "img", "a" } THEN << tag.href, tag.src >> ELSE << >>

RECURSIVE ConcatAll(_)
ConcatAll(ss) == IF ss = << >> THEN << >> ELSE Head(ss) \o ConcatAll(Tail(ss))

ExtractCandidates(doc) ==
    SelectSeq(ConcatAll([ i \in 1..Len(doc) |-> AttrsOf(doc[i]) ]),
              LAMBDA url : url # None /\ HasImageExtension(url))

\* ------------------------------------------------------ the outside world

Https == << "h","t","t","p","s",":","/","/" >>
PageA == Https \o << "a","/","p" >>
PageB == Https \o << "b","/" >>
PageG == Https \o << "g","/" >>

Tag(name, href, src) == [ name |-> name, href |-> href, src |-> src ]

\* Page A: two links to one picture (an absolute and a relative path), a
\* picture in an element that is no img or a, and a protocol-relative link
\* whose extension stands in its query string.
DocA ==
    << Tag("img", << "/","i",".","h","t","m","l" >>, << "/","x",".","P","N","G" >>),
       Tag("a", << "x",".","P","N","G" >>, None),
       Tag("p", None, << "z",".","p","n","g" >>),
       Tag("img", None, << "/","/","c","/","y","?",".","g","i","f" >>) >>

\* Page B: one absolute link.
DocB == << Tag("a", Https \o << "c","/","w",".","j","p","g" >>, None) >>

\* Page G: a gallery of one picture that is gone and one that its server
\* never answers for (session.get has no timeout).
DocG ==
    [ i \in 1..BigDocLen |->
        IF i % 2 = 0 THEN Tag("img", None, << "/","q",".","b","m","p" >>)
        ELSE Tag("img", None, << "/","s",".","b","m","p" >>) ]

\* A response of session.get followed by raise_for_status: a transport error
\* or error status, or a body.  A URL with no possible response is one whose
\* server never answers.  A body is a sequence of byte blocks, the
\* first one holding the magic number Image.open reads.
Err == [ status |-> "error", body |-> << >> ]
Ok(body) == [ status |-> "ok", body |-> body ]
NoResponse == [ status |-> "none", body |-> << >> ]

UrlX == Https \o << "a","/","x",".","P","N","G" >>
UrlY == Https \o << "c","/","y","?",".","g","i","f" >>
UrlW == Https \o << "c","/","w",".","j","p","g" >>

NetSmall ==
    (UrlX :> { Err, Ok(<< "PNG" >>), Ok(<< "JPEG", "x2" >>) })
    @@ (UrlY :> { Ok(<< "GIF" >>), Ok(<< "TIFF" >>) })

UrlS == Https \o << "g","/","s",".","b","m","p" >>

NetBig == (UrlW :> { Ok(<< "JPEG", "w1" >>), Ok(<< "HTML", "w2" >>) }) @@ (UrlS :> {})

\* The picture of page G that is gone.  Its server is slow: it answers one
\* request at a time, in the order they were sent, and none before the
\* handler has submitted all its downloads and waits for them.
UrlQ == Https \o << "g","/","q",".","b","m","p" >>

SlowUrls == { UrlQ }

\* Page G as a gallery of that picture only.
DocQ == [ i \in 1..BigDocLen |-> Tag("img", None, << "/","q",".","b","m","p" >>) ]

NetLive == (UrlW :> { Ok(<< "JPEG", "w1" >>), Ok(<< "HTML", "w2" >>) }) @@ (UrlQ :> { Err })

\* What a fetch of url may answer: a URL the world does not serve fails.
Responses(url) == IF url \in DOMAIN net THEN net[url] ELSE { Err }

\* Image.open(BytesIO(content)).format: the format the magic number names,
\* "" when the bytes are no image (Image.open raises).
ImageFormat(content) ==
    IF content # << >>
       /\ Head(content) \in { "JPEG", "PNG", "GIF", "BMP", "WEBP", "TIFF", "ICO" }
    THEN Head(content) ELSE ""

AcceptedFormats == { "JPEG", "PNG", "GIF", "BMP", "WEBP" }

\* ------------------------------------------------------------ the store

DirExists(d) == d \in DOMAIN files

EmptyDir == [ n \in {} |-> << >> ]

\* The file name of directory d holds content, the other files are kept.
PutFile_AnyDir(d, name, content) ==
    [ dd \in DOMAIN files |->
        [ n \in DOMAIN files[dd] \cup { name } |->
            IF n = name THEN content ELSE files[dd][n] ] ]

PutFile(d, name, content) ==
    [ files EXCEPT ![d] =
        [ n \in DOMAIN files[d] \cup { name } |->
            IF n = name THEN content ELSE files[d][n] ] ]

\* f.write(content) through a descriptor that open(path, 'wb') returned: the
\* bytes go to the start of the file, and what the file holds beyond them
\* (another descriptor wrote it since the open) stays.
Overlay(content, old) == content \o SubSeq(old, Len(content) + 1, Len(old))

\* The directory names a client may ask for: those of the pages and one no
\* page hashes to.
Identities == { sanitize_url(u) : u \in DOMAIN web } \cup { "ffff" }

\* --------------------------------------------------------------- states

NoCall == [ fn |-> "", url |-> << >>, base_url |-> << >>, value |-> << >> ]

\* The server once started, before its first request.
Started ==
    /\ files = << >>
    /\ pc = "idle"
    /\ req = None
    /\ potential_image_urls = << >>
    /\ futures = << >>
    /\ finished = {}
    /\ waiter = << >>
    /\ collected = {}
    /\ images_downloaded = << >>
    /\ waiting = << >>
    /\ nreq = 0
    /\ responses = << >>
    /\ listing = [ hash |-> "", status |-> 0, detail |-> "", images |-> << >> ]
    /\ nget = 0
    /\ completion = << >>

Init ==
    /\ web = (PageA :> DocA)
    /\ net = NetSmall
    /\ probe = NoCall
    /\ Started

\* ------------------------------------------------- the request handlers

\* The location dictionary both scrape_images_endpoint and scrape return.
Location(hashed_dir) ==
    << "http://127.0.0.1:8000/api/downloads/", hashed_dir >>

Respond(url, kind, body) ==
    responses' = Append(responses, [ url |-> url, kind |-> kind, body |-> body ])

\* The handlers are coroutines of the one event loop uvicorn.run starts, and
\* they never await: the loop takes up a request only when no handler runs.
LoopFree_Threaded == TRUE

LoopFree == pc = "idle"

\* A request for /api/scrape/images?url=u reaches the server while a handler
\* runs: it waits for the loop.  first_time tells whether the directory of
\* the page was missing at that moment.  (A listing request that arrives
\* while a handler runs is handled as one that arrives later.)
Arrive(u) ==
    /\ ~ LoopFree
    /\ nreq < MaxRequests
    /\ Len(waiting) < MaxWaiting
    /\ waiting' = Append(waiting, [ url |-> u,
                                    first_time |-> sanitize_url(u) \notin DOMAIN files ])
    /\ nreq' = nreq + 1
    /\ UNCHANGED << web, net, probe, files, pc, req, potential_image_urls,
                    futures, finished, waiter, collected, images_downloaded,
                    responses, listing, nget, completion >>

\* The loop takes up a scrape request for u: the oldest waiting one, or one
\* that arrives when none waits.
Accept(u) ==
    /\ LoopFree
    /\ IF waiting # << >>
       THEN /\ Head(waiting).url = u
            /\ waiting' = Tail(waiting)
            /\ nreq' = nreq
       ELSE /\ nreq < MaxRequests
            /\ waiting' = waiting
            /\ nreq' = nreq + 1

\* os.path.isdir(os.path.join('downloads', hashed_dir)) of the endpoint.
CacheHit_Never(u) == FALSE

CacheHit_HasContent(u) ==
    DirExists(sanitize_url(u)) /\ files[sanitize_url(u)] # EmptyDir

CacheHit_AtArrival(u) ==
    IF waiting # << >> THEN ~ Head(waiting).first_time
    ELSE DirExists(sanitize_url(u))

CacheHit(u) == DirExists(sanitize_url(u))

\* GET /api/scrape/images on a page whose directory exists.
EndpointHit(u) ==
    /\ Accept(u)
    /\ CacheHit(u)
    /\ Respond(u, "hit", Location(sanitize_url(u)))
    /\ UNCHANGED << web, net, probe, files, pc, req, potential_image_urls,
                    futures, finished, waiter, collected, images_downloaded,
                    listing, nget, completion >>

\* GET /api/scrape/images on a page with no directory: scrape(url) is
\* entered, with nothing extracted or downloaded yet, and its
\* session.get(url) is sent.
EndpointMiss(u) ==
    /\ Accept(u)
    /\ ~ CacheHit(u)
    /\ pc' = "get_page"
    /\ req' = u
    /\ potential_image_urls' = << >>
    /\ images_downloaded' = << >>
    /\ futures' = << >>
    /\ finished' = {}
    /\ waiter' = << >>
    /\ collected' = {}
    /\ completion' = << >>
    /\ nget' = nget + 1
    /\ UNCHANGED << web, net, probe, files, responses, listing >>

\* The page cannot be fetched: scrape returns {}.
PageFetchFails_MakesDir ==
    /\ pc = "get_page"
    /\ pc' = "idle"
    /\ Respond(req, "empty", << >>)
    /\ files' = IF DirExists(sanitize_url(req)) THEN files
                ELSE (sanitize_url(req) :> EmptyDir) @@ files
    /\ UNCHANGED << web, net, probe, req, potential_image_urls, futures,
                    finished, waiter, collected, images_downloaded, waiting,
                    nreq, listing, nget, completion >>

PageFetchFails ==
    /\ pc = "get_page"
    /\ pc' = "idle"
    /\ Respond(req, "empty", << >>)
    /\ UNCHANGED << web, net, probe, files, req, potential_image_urls, futures,
                    finished, waiter, collected, images_downloaded, waiting,
                    nreq, listing, nget, completion >>

\* The page arrives: it is parsed and scrape_images collects its candidates.
PageFetchOk ==
    /\ pc = "get_page"
    /\ potential_image_urls' = ExtractCandidates(web[req])
    /\ pc' = "makedirs"
    /\ UNCHANGED << web, net, probe, files, req, futures, finished, waiter,
                    collected, images_downloaded, waiting, nreq, responses,
                    listing, nget, completion >>

\* Where scrape_images stands once n of its candidates are submitted.
AfterSubmit(n) == IF n = Len(potential_image_urls) THEN "as_completed" ELSE "submit"

\* os.makedirs(local_download_path, exist_ok=True) succeeds.
MakeDirsOk ==
    /\ pc = "makedirs"
    /\ files' = IF DirExists(sanitize_url(req)) THEN files
                ELSE (sanitize_url(req) :> EmptyDir) @@ files
    /\ pc' = AfterSubmit(0)
    /\ UNCHANGED << web, net, probe, req, potential_image_urls, futures,
                    finished, waiter, collected, images_downloaded, waiting,
                    nreq, responses, listing, nget, completion >>

\* os.makedirs raises OSError: nothing catches it, the request fails.
MakeDirsFails ==
    /\ pc = "makedirs"
    /\ pc' = "idle"
    /\ Respond(req, "error", << >>)
    /\ UNCHANGED << web, net, probe, files, req, potential_image_urls, futures,
                    finished, waiter, collected, images_downloaded, waiting,
                    nreq, listing, nget, completion >>

\* The future executor.submit makes for a candidate.  gets counts the
\* session.get calls made for it.
NewFuture_FirstName(url) ==
    [ image_url |-> resolve_url(url, base_domain(req)),
      save_name |-> sanitize_image_name(potential_image_urls[1]),
      st        |-> "queued",
      gets      |-> 0,
      response  |-> NoResponse,
      fault     |-> "none",
      result    |-> None ]

NewFuture(url) ==
    [ image_url |-> resolve_url(url, base_domain(req)),
      save_name |-> sanitize_image_name(url),
      st        |-> "queued",
      gets      |-> 0,
      response  |-> NoResponse,
      fault     |-> "none",
      result    |-> None ]

\* executor.submit of the next candidate, in the order of the list.
Submit ==
    /\ pc = "submit"
    /\ futures' = Append(futures, NewFuture(potential_image_urls[Len(futures) + 1]))
    /\ pc' = AfterSubmit(Len(futures) + 1)
    /\ UNCHANGED << web, net, probe, files, req, potential_image_urls,
                    finished, waiter, collected, images_downloaded, waiting,
                    nreq, responses, listing, nget, completion >>

\* ------------------------------------------------------ the worker pool

max_workers == 10

\* The futures a thread of the pool is executing.
Running_NeverReleased == { i \in DOMAIN futures : futures[i].st # "queued" }

Running == { i \in DOMAIN futures : futures[i].st \in { "get", "validate", "open", "write" } }

\* The futures whose session.get is on its way.
InFlight == { i \in DOMAIN futures : futures[i].st = "get" }

\* A thread of the pool is free to take a work item.
ThreadFree_Unbounded == TRUE

ThreadFree == Cardinality(Running) < max_workers

\* A pool thread takes the oldest queued work item and calls session.get.
Start(i) ==
    /\ futures[i].st = "queued"
    /\ \A j \in 1..(i - 1) : futures[j].st # "queued"
    /\ ThreadFree
    /\ futures' = [ futures EXCEPT ![i].st = "get", ![i].gets = @ + 1 ]
    /\ nget' = nget + 1
    /\ UNCHANGED << web, net, probe, files, pc, req, potential_image_urls,
                    finished, waiter, collected, images_downloaded, waiting,
                    nreq, responses, listing, completion >>

\* Future i finishes: set_result tells the waiter as_completed installed, if
\* it is installed already.
Notified(i) == IF pc = "collect" THEN Append(waiter, i) ELSE waiter

\* The server is ready to answer the request of future i: a slow server
\* is when the handler waits and the requests sent before this one are
\* answered.
ServerReady(i) ==
    futures[i].image_url \in SlowUrls =>
        /\ pc = "collect"
        /\ \A j \in 1..(i - 1) :
              futures[j].image_url = futures[i].image_url => futures[j].st # "get"

\* session.get and raise_for_status return or raise.
GetReturns_Retry(i, r) ==
    /\ futures[i].st = "get"
    /\ r \in Responses(futures[i].image_url)
    /\ ServerReady(i)
    /\ futures' = [ futures EXCEPT ![i].response = r,
                                   ![i].st = IF r.status = "ok" THEN "validate" ELSE "queued" ]
    /\ waiter' = waiter
    /\ UNCHANGED << web, net, probe, files, pc, req, potential_image_urls,
                    finished, collected, images_downloaded, waiting, nreq,
                    responses, listing, nget, completion >>

GetReturns(i, r) ==
    /\ futures[i].st = "get"
    /\ r \in Responses(futures[i].image_url)
    /\ ServerReady(i)
    /\ futures' = [ futures EXCEPT ![i].response = r,
                                   ![i].st = IF r.status = "ok" THEN "validate" ELSE "done" ]
    /\ waiter' = IF r.status = "ok" THEN waiter ELSE Notified(i)
    /\ UNCHANGED << web, net, probe, files, pc, req, potential_image_urls,
                    finished, collected, images_downloaded, waiting, nreq,
                    responses, listing, nget, completion >>

\* The bytes may be written: Image.open accepted them and names a format of
\* the list.
IsValid(content) == ImageFormat(content) \in AcceptedFormats

\* Image.open and the test of img.format.
Validate_NoFormatTest(i) ==
    /\ futures[i].st = "validate"
    /\ futures' = [ futures EXCEPT ![i].st = "open" ]
    /\ UNCHANGED << web, net, probe, files, pc, req, potential_image_urls,
                    finished, waiter, collected, images_downloaded, waiting,
                    nreq, responses, listing, nget, completion >>

Validate(i) ==
    /\ futures[i].st = "validate"
    /\ futures' = [ futures EXCEPT
                      ![i].st = IF IsValid(futures[i].response.body) THEN "open" ELSE "done" ]
    /\ waiter' = IF IsValid(futures[i].response.body) THEN waiter ELSE Notified(i)
    /\ UNCHANGED << web, net, probe, files, pc, req, potential_image_urls,
                    finished, collected, images_downloaded, waiting, nreq,
                    responses, listing, nget, completion >>

\* open(save_path, 'wb') creates the file or truncates it.
OpenOk(i) ==
    /\ futures[i].st = "open"
    /\ files' = PutFile(sanitize_url(req), futures[i].save_name, << >>)
    /\ futures' = [ futures EXCEPT ![i].st = "write" ]
    /\ UNCHANGED << web, net, probe, pc, req, potential_image_urls, finished,
                    waiter, collected, images_downloaded, waiting, nreq,
                    responses, listing, nget, completion >>

\* open raises OSError, which the worker's except clause catches.
OpenFails_ReturnsUrl(i) ==
    /\ futures[i].st = "open"
    /\ futures' = [ futures EXCEPT ![i].st = "done", ![i].fault = "open",
                                   ![i].result = futures[i].image_url ]
    /\ waiter' = Notified(i)
    /\ UNCHANGED << web, net, probe, files, pc, req, potential_image_urls,
                    finished, collected, images_downloaded, waiting, nreq,
                    responses, listing, nget, completion >>

OpenFails(i) ==
    /\ futures[i].st = "open"
    /\ futures' = [ futures EXCEPT ![i].st = "done", ![i].fault = "open" ]
    /\ waiter' = Notified(i)
    /\ UNCHANGED << web, net, probe, files, pc, req, potential_image_urls,
                    finished, collected, images_downloaded, waiting, nreq,
                    responses, listing, nget, completion >>

\* f.write(response.content) and the close succeed: the worker returns its URL.
WriteOk(i) ==
    /\ futures[i].st = "write"
    /\ files' = PutFile(sanitize_url(req), futures[i].save_name,
                        Overlay(futures[i].response.body,
                                files[sanitize_url(req)][futures[i].save_name]))
    /\ futures' = [ futures EXCEPT ![i].st = "done", ![i].result = futures[i].image_url ]
    /\ waiter' = Notified(i)
    /\ completion' = Append(completion, i)
    /\ UNCHANGED << web, net, probe, pc, req, potential_image_urls, finished,
                    collected, images_downloaded, waiting, nreq, responses,
                    listing, nget >>

\* The write raises OSError after k blocks (disk full): the except clause
\* catches it and the file keeps what was written.
WriteFails(i, k) ==
    /\ futures[i].st = "write"
    /\ k < Len(futures[i].response.body)
    /\ files' = PutFile(sanitize_url(req), futures[i].save_name,
                        Overlay(SubSeq(futures[i].response.body, 1, k),
                                files[sanitize_url(req)][futures[i].save_name]))
    /\ futures' = [ futures EXCEPT ![i].st = "done", ![i].fault = "write" ]
    /\ waiter' = Notified(i)
    /\ UNCHANGED << web, net, probe, pc, req, potential_image_urls, finished,
                    collected, images_downloaded, waiting, nreq, responses,
                    listing, nget, completion >>

\* as_completed(futures) starts: it notes the futures that are finished
\* already and installs its waiter on the others.
AsCompleted ==
    /\ pc = "as_completed"
    /\ finished' = { i \in DOMAIN futures : futures[i].st = "done" }
    /\ waiter' = << >>
    /\ pc' = "collect"
    /\ UNCHANGED << web, net, probe, files, req, potential_image_urls, futures,
                    collected, images_downloaded, waiting, nreq, responses,
                    listing, nget, completion >>

\* The future as_completed may yield next: one of those that were finished
\* when it started, in no particular order, and once these are yielded the
\* one that finished first since.
Yieldable_Any(i) == futures[i].st = "done" /\ i \notin collected

Yieldable(i) ==
    \/ i \in finished
    \/ finished = {} /\ waiter # << >> /\ i = Head(waiter)

\* One turn of the loop over as_completed(futures): the future yielded has
\* its result kept when it is a URL.
Collect(i) ==
    /\ pc = "collect"
    /\ Yieldable(i)
    /\ finished' = finished \ { i }
    /\ waiter' = SelectSeq(waiter, LAMBDA j : j # i)
    /\ collected' = collected \cup { i }
    /\ images_downloaded' = IF futures[i].result # None
                            THEN Append(images_downloaded, futures[i].result)
                            ELSE images_downloaded
    /\ UNCHANGED << web, net, probe, files, pc, req, potential_image_urls,
                    futures, waiting, nreq, responses, listing, nget,
                    completion >>

\* as_completed has yielded every future.
AllCollected_NoWait == TRUE

AllCollected == collected = DOMAIN futures

\* The loop and the with block end; scrape_images and scrape return.
Return ==
    /\ pc = "collect"
    /\ AllCollected
    /\ pc' = "idle"
    /\ Respond(req, "miss", Location(sanitize_url(req)))
    /\ UNCHANGED << web, net, probe, files, req, potential_image_urls, futures,
                    finished, waiter, collected, images_downloaded, waiting,
                    nreq, listing, nget, completion >>

\* ----------------------------------------------------------- get_downloads

\* The names of a directory that the filter of get_downloads keeps.
ImageFiles_CaseSensitive(d) ==
    { n \in DOMAIN files[d] : \E ext \in image_extensions : EndsWith(n, ext) }

ImageFiles(d) == { n \in DOMAIN files[d] : HasImageExtension(n) }

\* The orders os.listdir may give the names of a set in.
Orders(S) ==
    { q \in [ 1..Cardinality(S) -> S ] : \A i, j \in DOMAIN q : i # j => q[i] # q[j] }

\* GET /api/downloads/{hash_value}.
ListDownloads(h, order) ==
    /\ LoopFree
    /\ waiting = << >>
    /\ nreq < MaxRequests
    /\ nreq' = nreq + 1
    /\ listing' =
         IF ~ DirExists(h)
         THEN [ hash |-> h, status |-> 404, detail |-> "Directory not found", images |-> << >> ]
         ELSE IF ImageFiles(h) = {}
         THEN [ hash |-> h, status |-> 404, detail |-> "No images found in the directory",
                images |-> << >> ]
         ELSE [ hash |-> h, status |-> 200, detail |-> "",
                images |-> [ i \in DOMAIN order |-> << "/downloads/", h, "/", order[i] >> ] ]
    /\ order \in (IF DirExists(h) THEN Orders(ImageFiles(h)) ELSE { << >> })
    /\ UNCHANGED << web, net, probe, files, pc, req, potential_image_urls,
                    futures, finished, waiter, collected, images_downloaded,
                    waiting, responses, nget, completion >>

\* ---------------------------------------------------------- specification

\* A step of the thread that handles the request.
HandlerStep ==
    \/ PageFetchFails
    \/ PageFetchOk
    \/ MakeDirsOk
    \/ MakeDirsFails
    \/ Submit
    \/ AsCompleted
    \/ \E i \in DOMAIN futures : Collect(i)
    \/ Return

\* A step of a thread of the pool.
WorkerStep ==
    \/ \E i \in DOMAIN futures : Start(i)
    \/ \E i \in DOMAIN futures : \E r \in Responses(futures[i].image_url) : GetReturns(i, r)
    \/ \E i \in DOMAIN futures : Validate(i)
    \/ \E i \in DOMAIN futures : OpenOk(i)
    \/ \E i \in DOMAIN futures : OpenFails(i)
    \/ \E i \in DOMAIN futures : WriteOk(i)
    \/ \E i \in DOMAIN futures : \E k \in 0..1 : WriteFails(i, k)

\* A request of a client.
ClientStep ==
    \/ \E u \in DOMAIN web : Arrive(u)
    \/ \E u \in DOMAIN web : EndpointHit(u)
    \/ \E u \in DOMAIN web : EndpointMiss(u)
    \/ \E h \in Identities :
         \E order \in (IF DirExists(h) THEN Orders(ImageFiles(h)) ELSE { << >> }) :
            ListDownloads(h, order)

Next == ClientStep \/ HandlerStep \/ WorkerStep

Spec == Init /\ [][Next]_vars

\* The same server in a world where one page has more candidates than the
\* pool has threads.
InitBig ==
    /\ web = (PageG :> DocG) @@ (PageB :> DocB)
    /\ net = NetBig
    /\ probe = NoCall
    /\ Started

SpecBig == InitBig /\ [][Next]_vars

\* The same server in a world where every fetch is answered: page G is a
\* gallery of one picture that is gone.
InitLive ==
    /\ web = (PageG :> DocQ) @@ (PageB :> DocB)
    /\ net = NetLive
    /\ probe = NoCall
    /\ Started

\* Every fetch returns or fails, and the threads are scheduled: the handler
\* thread and the pool threads each go on while they can.
SpecLive == InitLive /\ [][Next]_vars /\ WF_vars(HandlerStep) /\ WF_vars(WorkerStep)

\* -------------------------------------------- direct calls of resolve_url

\* The references and the bases resolve_url is called with.
Refs ==
    { << "h","t","t","p",":","/","/","h","/","a",".","p","n","g" >>,
      << "h","t","t","p","s",":","/","/","h","/","a",".","p","n","g" >>,
      << "h","t","t","p","x",".","p","n","g" >>,
      << "/","/","h","/","a",".","p","n","g" >>,
      << "/","/","h","/","/","a",".","p","n","g" >>,
      << "/","i","m","g","/","a",".","p","n","g" >>,
      << "/","a",".","p","n","g" >>,
      << "/","a","/","b","/","c",".","p","n","g" >>,
      << "I","M","G","/","A",".","P","N","G" >>,
      << "a",".","p","n","g" >>,
      << "i","m","g","/","a",".","p","n","g" >>,
      << "x","/",".",".","/","a",".","p","n","g" >> }

Bases ==
    { << "h","t","t","p","s",":","/","/","s","i","t","e",".","c","o","m" >>,
      << "h","t","t","p","s",":","/","/","s","i","t","e",".","c","o","m","/" >>,
      << "h","t","t","p","s",":","/","/","s","i","t","e",".","c","o","m","/","/" >>,
      << "h","t","t","p","s",":","/","/","s","i","t","e",".","c","o","m","/","x","/","y" >>,
      << "h","t","t","p","s",":","/","/","s","i","t","e",".","c","o","m","/","x","/" >> }

\* No request is made; a call of resolve_url(url, base_url) is about to be made.
InitResolve ==
    /\ web = (PageA :> DocA)
    /\ net = NetSmall
    /\ probe \in { [ fn |-> "", url |-> u, base_url |-> b, value |-> << >> ] :
                     u \in Refs, b \in Bases }
    /\ Started

\* The call returns its value.
CallResolveUrl ==
    /\ probe.fn = ""
    /\ probe' = [ probe EXCEPT !.fn = "resolve_url",
                               !.value = resolve_url(probe.url, probe.base_url) ]
    /\ UNCHANGED << web, net, files, pc, req, potential_image_urls, futures,
                    finished, waiter, collected, images_downloaded, waiting,
                    nreq, responses, listing, nget, completion >>

NextResolve == CallResolveUrl

SpecResolve == InitResolve /\ [][NextResolve]_vars


\* ------------------------------------------------------------ properties

Last(q) == q[Len(q)]

\* Number of places of the sequence q that hold x.
Count(q, x) == Cardinality({ i \in DOMAIN q : q[i] = x })

\* The environment let the download of future i succeed: the fetch answered
\* with a success status, the bytes are an image of an accepted format and
\* the filesystem raised nothing.
Succeeded(i) ==
    /\ futures[i].response.status = "ok"
    /\ ImageFormat(futures[i].response.body) \in AcceptedFormats
    /\ futures[i].fault = "none"

\* C1 (concurrency ceiling): at no point of a run, whatever the number of
\* candidates, are more than 10 resource fetches in flight at once.
C1_Ceiling == Cardinality(InFlight) <= 10

\* C1 witness: 10 fetches are in flight while a further candidate waits.
C1_Witness ==
    /\ Cardinality(InFlight) = 10
    /\ \E i \in DOMAIN futures : futures[i].st = "queued"

\* C2 (no early return): the run has not returned to its caller while a
\* future of it is still queued, fetching, validating or writing.
C2_NoEarlyReturn ==
    pc = "idle" => \A i \in DOMAIN futures : futures[i].st = "done"

\* C2 witness: a run with several candidates returned.
C2_Witness ==
    /\ pc = "idle"
    /\ Len(futures) >= 2
    /\ responses # << >>
    /\ Last(responses).kind = "miss"

\* C3 (partial-failure aggregation): a run that dispatched its candidates
\* ends without an exception, answering the location, and the list it built
\* holds the URL of each successful candidate once per such candidate and
\* nothing else.
C3_Aggregation ==
    (pc = "idle" /\ futures # << >>) =>
        /\ [ url |-> req, kind |-> "miss", body |-> Location(sanitize_url(req)) ]
             \in Range(responses)
        /\ \A u \in Range(images_downloaded) \cup { futures[i].image_url : i \in DOMAIN futures } :
             Count(images_downloaded, u) =
               Cardinality({ i \in DOMAIN futures : futures[i].image_url = u /\ Succeeded(i) })

\* C3 witness: a run returned in which one fetch failed, one payload failed
\* the format validation and one candidate succeeded.
C3_Witness ==
    /\ pc = "idle"
    /\ \E i, j, k \in DOMAIN futures :
         /\ futures[i].response.status = "error"
         /\ futures[j].response.status = "ok" /\ ~ IsValid(futures[j].response.body)
         /\ Succeeded(k)
    /\ Len(images_downloaded) = 1

\* The step that takes up a request to scrape the page u.
ScrapeTaken(u) ==
    /\ pc = "idle"
    /\ \/ pc' = "get_page" /\ req' = u
       \/ Len(responses') = Len(responses) + 1 /\ Last(responses').url = u

\* The bytes are the whole body of a response that is an accepted image.
FullyValidated(content) ==
    /\ IsValid(content)
    /\ \E url \in DOMAIN net : Ok(content) \in net[url]

\* C4 (validation before write): a store directory holds only files whose
\* content passed validation; stated here for the states in which no request
\* is being handled, where no write is in progress.
C4_OnlyValidatedFiles ==
    pc = "idle" =>
        \A d \in DOMAIN files : \A n \in DOMAIN files[d] : FullyValidated(files[d][n])

\* C5 (idempotence of Scrape): a Scrape of a page whose store directory
\* exists sends no request to the network, leaves the store as it is and
\* answers the location the populating Scrape answered.
C5_Idempotence ==
    [][ \A u \in DOMAIN web :
          (ScrapeTaken(u) /\ sanitize_url(u) \in DOMAIN files) =>
              /\ pc' = "idle"
              /\ nget' = nget
              /\ files' = files
              /\ \E j \in DOMAIN responses :
                   /\ responses[j].url = u
                   /\ responses[j].kind = "miss"
                   /\ Last(responses').body = responses[j].body ]_vars

\* C5 witness: a Scrape was answered from the store.
C5_Witness == \E j \in DOMAIN responses : responses[j].kind = "hit"

\* C6 (page-fetch failure): when the fetch of the page fails the Scrape ends
\* with the empty result, no resource fetch is dispatched, the store is
\* unchanged and holds no directory for the page; and a Scrape of a page
\* with no directory fetches the page.
C6_PageFetchFailure ==
    [][ /\ (pc = "get_page" /\ pc' = "idle") =>
              /\ Last(responses') = [ url |-> req, kind |-> "empty", body |-> << >> ]
              /\ files' = files
              /\ sanitize_url(req) \notin DOMAIN files'
              /\ futures' = << >>
              /\ nget' = nget
        /\ \A u \in DOMAIN web :
              (ScrapeTaken(u) /\ sanitize_url(u) \notin DOMAIN files) =>
                  pc' = "get_page" /\ nget' = nget + 1 ]_vars

\* C6 witness: the page is being fetched again after a Scrape of it failed.
C6_Witness ==
    /\ pc = "get_page"
    /\ [ url |-> req, kind |-> "empty", body |-> << >> ] \in Range(responses)

\* C7 (filesystem failures are fatal): a run in which the creation of the
\* directory or the writing of a validated file failed does not end normally.
C7_FilesystemFatal ==
    (pc = "idle" /\ responses # << >> /\ Last(responses).kind = "miss") =>
        \A i \in DOMAIN futures : futures[i].fault = "none"

\* C8 as stated: once a Scrape of u got past its page fetch, every later
\* Scrape of u is a cache hit that fetches nothing.
C8_PastPageFetch ==
    [][ \A u \in DOMAIN web :
          ( /\ ScrapeTaken(u)
            /\ \E j \in DOMAIN responses :
                 responses[j].url = u /\ responses[j].kind \in { "miss", "error" } ) =>
              pc' = "idle" /\ nget' = nget ]_vars

\* C8 (the cache key is the directory), amended: once a Scrape of u got past
\* its page fetch and the creation of its directory, every later Scrape of
\* u is a cache hit that fetches nothing, also when the directory is empty.
C8_DirectoryIsCacheKey ==
    [][ \A u \in DOMAIN web :
          ( /\ ScrapeTaken(u)
            /\ \E j \in DOMAIN responses :
                 responses[j].url = u /\ responses[j].kind = "miss" ) =>
              /\ pc' = "idle"
              /\ nget' = nget
              /\ files' = files
              /\ Last(responses').kind = "hit" ]_vars

\* C8 witness: a Scrape was answered as a hit from an empty directory.
C8_Witness ==
    \E j \in DOMAIN responses :
        /\ responses[j].kind = "hit"
        /\ files[sanitize_url(responses[j].url)] = EmptyDir

\* The files of directory h with a supported extension, in any case of letters.
Qualifying(h) ==
    { n \in DOMAIN files[h] : \E ext \in image_extensions : EndsWith(LowerStr(n), ext) }

\* C9 (ListDownloads): a missing directory gives the not-found answer, a
\* directory with no file of a supported extension the distinct
\* no-images answer, any other directory exactly its files of a supported
\* extension; the store is left as it is.
C9_ListDownloads ==
    [][ (pc = "idle" /\ pc' = "idle" /\ nreq' = nreq + 1 /\ responses' = responses) =>
          LET h == listing'.hash
          IN  /\ files' = files
              /\ h \notin DOMAIN files =>
                    /\ listing'.status = 404
                    /\ listing'.detail = "Directory not found"
              /\ (h \in DOMAIN files /\ Qualifying(h) = {}) =>
                    /\ listing'.status = 404
                    /\ listing'.detail = "No images found in the directory"
              /\ (h \in DOMAIN files /\ Qualifying(h) # {}) =>
                    /\ listing'.status = 200
                    /\ Range(listing'.images) =
                         { << "/downloads/", h, "/", n >> : n \in Qualifying(h) }
                    /\ Len(listing'.images) = Cardinality(Qualifying(h)) ]_vars

\* C9 witness: a listing that names a file was given for a directory that
\* also holds a file it does not name.
C9_Witness ==
    /\ listing.status = 200
    /\ listing.hash \in DOMAIN files
    /\ \E n \in DOMAIN files[listing.hash] : << "/downloads/", listing.hash, "/", n >>
                                               \notin Range(listing.images)

\* C10 as stated: no two workers of a run write to the same destination at
\* the same time.
C10_DistinctPaths ==
    \A i, j \in DOMAIN futures :
        (i # j /\ futures[i].st = "write" /\ futures[j].st = "write") =>
            futures[i].save_name # futures[j].save_name

\* C10, amended: workers of a run whose candidates sanitize to different
\* names write to different destinations.
C10_DistinctNamesDistinctPaths ==
    \A i \in DOMAIN futures : \A j \in 1..(i - 1) :
        futures[i].save_name = futures[j].save_name =>
            sanitize_image_name(potential_image_urls[i])
              = sanitize_image_name(potential_image_urls[j])

\* C10 witness: two workers are writing at once, to different destinations.
C10_Witness ==
    \E i, j \in DOMAIN futures :
        /\ futures[i].st = "write" /\ futures[j].st = "write"
        /\ futures[i].save_name # futures[j].save_name

\* C11 as stated: of two first-time requests for one page that overlap, the
\* second passes the cache-miss check as the first did and runs the
\* pipeline too; every location answered for a page is the one of its
\* digest.
C11_BothRunPipeline ==
    [][ /\ \A u \in DOMAIN web :
              ( /\ ScrapeTaken(u)
                /\ waiting # << >>
                /\ Head(waiting) = [ url |-> u, first_time |-> TRUE ]
                /\ req = u ) => pc' = "get_page"
        /\ ( /\ Len(responses') > Len(responses)
             /\ Last(responses').kind \in { "hit", "miss" } ) =>
              Last(responses').body = Location(sanitize_url(Last(responses').url)) ]_vars

\* C11 (cross-run race on one page), amended: requests are handled one at a
\* time, so a first-time request for a page that arrived while a handler
\* ran is taken up when no run is in progress; if the directory of the page
\* exists by then it is answered as a cache hit, with the location the
\* populating run answered, and it fetches and writes nothing; if not it
\* runs the pipeline.
C11_SecondIsHit ==
    [][ /\ \A u \in DOMAIN web :
              ( /\ ScrapeTaken(u)
                /\ waiting # << >>
                /\ Head(waiting) = [ url |-> u, first_time |-> TRUE ] ) =>
                  IF sanitize_url(u) \in DOMAIN files
                  THEN /\ pc' = "idle"
                       /\ nget' = nget
                       /\ files' = files
                       /\ Last(responses') = [ url |-> u, kind |-> "hit",
                                               body |-> Location(sanitize_url(u)) ]
                       /\ [ url |-> u, kind |-> "miss", body |-> Location(sanitize_url(u)) ]
                            \in Range(responses)
                  ELSE pc' = "get_page" /\ req' = u
        /\ ( /\ Len(responses') > Len(responses)
             /\ Last(responses').kind \in { "hit", "miss" } ) =>
              Last(responses').body = Location(sanitize_url(Last(responses').url)) ]_vars

\* C11 witness: the run of a page has returned while a request for that
\* page waits that arrived before the directory of the page existed.
C11_Witness ==
    /\ pc = "idle"
    /\ waiting # << >>
    /\ Head(waiting) = [ url |-> req, first_time |-> TRUE ]
    /\ sanitize_url(req) \in DOMAIN files
    /\ Last(responses).kind = "miss"

\* The URLs of the futures of q, in the order of q.
UrlsOf(q) == [ k \in DOMAIN q |-> futures[q[k]].image_url ]

\* C12 as stated: the result list holds the URLs in the order in which the
\* workers returned them.
C12_CompletionOrder ==
    (pc = "idle" /\ futures # << >>) => images_downloaded = UrlsOf(completion)

\* The place of future i in the sequence q.
Place(q, i) == CHOOSE k \in DOMAIN q : q[k] = i

\* C12 (result order), amended: when the run returns, the result list holds
\* the URLs the workers returned, each as often as it was returned; and a
\* URL of a future that finished after as_completed was called is added
\* before the URL of every other such future that returned later.
C12_Permutation ==
    [][ /\ (pc = "collect" /\ pc' = "idle") =>
              \A u \in Range(images_downloaded) \cup Range(UrlsOf(completion)) :
                  Count(images_downloaded, u) = Count(UrlsOf(completion), u)
        /\ (pc = "collect" /\ collected' # collected) =>
              \A i \in collected' \ collected :
                  (i \notin finished /\ futures[i].result # None) =>
                      \A j \in DOMAIN futures \ (collected' \cup finished) :
                          futures[j].result # None =>
                              Place(completion, i) < Place(completion, j) ]_vars

\* C12 witness: a run returned a list of two URLs that is not in the order
\* of their submission.
C12_Witness ==
    /\ pc = "idle"
    /\ Len(images_downloaded) = 2
    /\ \E i, j \in DOMAIN futures :
         /\ i < j
         /\ futures[j].image_url = images_downloaded[1]
         /\ futures[i].image_url = images_downloaded[2]
         /\ futures[i].image_url # futures[j].image_url

\* The number of attributes of the document that scrape_images has to take
\* as candidates: the href and src of img and a elements that end in an
\* image extension.
Occurrences(doc) ==
    Cardinality({ p \in (DOMAIN doc) \X { "href", "src" } :
                    /\ doc[p[1]].name \in { "img", "a" }
                    /\ doc[p[1]][p[2]] # None
                    /\ HasImageExtension(doc[p[1]][p[2]]) })

\* C13 (no retries, no de-duplication): every candidate occurrence of the
\* document, duplicates included, is submitted once, in the order of the
\* document; a future is fetched once when a thread takes it and never
\* again, whatever the fetch gives.
C13_OnceEach ==
    /\ \A i \in DOMAIN futures :
          futures[i].gets = IF futures[i].st = "queued" THEN 0 ELSE 1
    /\ Len(futures) <= Len(potential_image_urls)
    /\ (pc = "collect" \/ (pc = "idle" /\ futures # << >>)) =>
          Len(futures) = Len(potential_image_urls)
    /\ pc = "as_completed" =>
          /\ Len(futures) = Occurrences(web[req])
          /\ \A i \in DOMAIN potential_image_urls :
                futures[i].image_url
                  = resolve_url(potential_image_urls[i], base_domain(req))

\* C13 witness: a run returned in which two futures had the same URL, the
\* fetch of one of them failed and each was fetched once.
C13_Witness ==
    /\ pc = "idle"
    /\ \E i, j \in DOMAIN futures :
         /\ i # j
         /\ futures[i].image_url = futures[j].image_url
         /\ futures[i].response.status = "error"
         /\ futures[i].gets = 1 /\ futures[j].gets = 1

\* The scheme and host of a base URL.
SchemeHost(base) == Split(base, "/")[1] \o << "/", "/" >> \o Split(base, "/")[3]

Str_img_a_png == << "/","i","m","g","/","a",".","p","n","g" >>
Str_a_png == << "a",".","p","n","g" >>
Str_site == << "h","t","t","p","s",":","/","/","s","i","t","e",".","c","o","m" >>

\* C14 (URL resolution): a reference that starts with "http" is returned as
\* it is; one that starts with "//" gets "https:" in front; one that starts
\* with "/" is joined to the scheme and host of the base with one slash
\* between them; any other is joined to the base with one slash between
\* them; so "/img/a.png" on "https://site.com/x/y" gives
\* "https://site.com/img/a.png" and "a.png" on "https://site.com/x/" gives
\* "https://site.com/x/a.png".
C14_Resolution ==
    probe.fn = "resolve_url" =>
        LET url == probe.url
            base == probe.base_url
            http == StartsWith(url, << "h","t","t","p" >>)
            slashes == StartsWith(url, << "/","/" >>)
            slash == StartsWith(url, << "/" >>)
        IN  /\ http => probe.value = url
            /\ (~ http /\ slashes) => probe.value = << "h","t","t","p","s",":" >> \o url
            /\ (~ http /\ ~ slashes /\ slash) =>
                  probe.value = SchemeHost(base) \o << "/" >> \o LStrip(url, "/")
            /\ (~ http /\ ~ slash) =>
                  probe.value = RStrip(base, "/") \o << "/" >> \o url
            /\ (url = Str_img_a_png /\ base = Str_site \o << "/","x","/","y" >>) =>
                  probe.value = Str_site \o Str_img_a_png
            /\ (url = Str_a_png /\ base = Str_site \o << "/","x","/" >>) =>
                  probe.value = Str_site \o << "/","x","/" >> \o Str_a_png

\* C15 (filename derivation): the name a candidate is saved under is the
\* last path segment of its URL without the query string, with "_" for
\* every character that is no letter, digit, "-" or "."; it holds no "/"
\* and only those characters and "_"; and when a worker has written to a
\* name, the file of that name holds what this worker wrote, whatever a
\* worker of the same name wrote before.
C15_FilenameDerivation ==
    [][ \A i \in DOMAIN futures :
          /\ LET url == potential_image_urls[i]
                 name == Basename(StripQuery(url))
             IN  /\ Len(futures[i].save_name) = Len(name)
                 /\ \A k \in DOMAIN name :
                       futures[i].save_name[k] = IF IsNameChr(name[k]) THEN name[k] ELSE "_"
                 /\ "/" \notin Range(futures[i].save_name)
                 /\ "?" \notin Range(futures[i].save_name)
                 /\ \A c \in Range(futures[i].save_name) : IsNameChr(c) \/ c = "_"
          /\ (futures[i].st = "write" /\ i \in DOMAIN futures' /\ futures'[i].result # None) =>
                 files'[sanitize_url(req)][futures[i].save_name] = futures[i].response.body ]_vars

\* C16 (a cache hit never exposes an unfinished run): when a Scrape answers
\* a location, as a hit or as a miss, every future of the run that made the
\* directory is finished and yielded; a hit is answered only when no run is
\* in progress, for a page whose run has returned.
C16_NoUnfinishedHit ==
    [][ ( /\ Len(responses') > Len(responses)
          /\ Last(responses').kind \in { "hit", "miss" } ) =>
            /\ \A i \in DOMAIN futures : futures[i].st = "done" /\ i \in collected
            /\ pc' = "idle"
            /\ Last(responses').kind = "hit" =>
                  /\ pc = "idle"
                  /\ \E j \in DOMAIN responses :
                       /\ responses[j].url = Last(responses').url
                       /\ responses[j].kind = "miss" ]_vars

\* C16 witness: the run of a page has returned while a request for that
\* page waits that arrived during the run, after the directory was made.
C16_Witness ==
    /\ pc = "idle"
    /\ waiting # << >>
    /\ Head(waiting) = [ url |-> req, first_time |-> FALSE ]
    /\ Len(futures) >= 2
    /\ Last(responses).kind = "miss"

\* C17 (every reported success is backed by a file): when the run returns,
\* each URL of its list is the result of a future whose file is in the
\* directory of the run; and a URL is added to the list only for a future
\* that finished without a fault, after writing its file.
C17_SuccessBackedByFile ==
    [][ /\ (pc = "collect" /\ pc' = "idle") =>
              \A k \in DOMAIN images_downloaded : \E i \in DOMAIN futures :
                  /\ futures[i].result = images_downloaded[k]
                  /\ futures[i].save_name \in DOMAIN files[sanitize_url(req)]
        /\ (pc = "collect" /\ images_downloaded' # images_downloaded) =>
              \E i \in collected' \ collected :
                  /\ futures[i].st = "done"
                  /\ futures[i].result = Last(images_downloaded')
                  /\ futures[i].fault = "none"
                  /\ futures[i].save_name \in DOMAIN files[sanitize_url(req)] ]_vars

\* C17 witness: a run returned a URL and its directory holds the file of it.
C17_Witness ==
    /\ pc = "idle"
    /\ images_downloaded # << >>
    /\ \E i \in DOMAIN futures :
         /\ futures[i].result = images_downloaded[1]
         /\ futures[i].save_name \in DOMAIN files[sanitize_url(req)]

\* C18 (the listing is a complete index of a run): a listing of the
\* directory of a page, asked for after the run of the page returned, names
\* the file of every future of the run that returned a URL, and gives the
\* no-images answer only if the run returned no URL.
C18_ListingComplete ==
    [][ ( /\ pc = "idle" /\ pc' = "idle"
          /\ nreq' = nreq + 1 /\ responses' = responses
          /\ futures # << >>
          /\ listing'.hash = sanitize_url(req) ) =>
            /\ \A i \in DOMAIN futures :
                  futures[i].result # None =>
                      << "/downloads/", listing'.hash, "/", futures[i].save_name >>
                         \in Range(listing'.images)
            /\ listing'.status = 404 => images_downloaded = << >> ]_vars

\* C19 (runs are confined to their directory): a step that makes a
\* directory or changes the files of one is a step of a run, on the
\* directory named by the digest of the page of that run; no directory is
\* removed.
C19_Confined ==
    [][ /\ DOMAIN files \subseteq DOMAIN files'
        /\ \A d \in DOMAIN files' :
              (d \notin DOMAIN files \/ files'[d] # files[d]) =>
                  pc # "idle" /\ d = sanitize_url(req) ]_vars

\* C19 witness: the directories of two pages exist and the one made last
\* holds a file.
C19_Witness ==
    /\ pc = "idle"
    /\ Cardinality(DOMAIN files) = 2
    /\ files[sanitize_url(req)] # EmptyDir
    /\ \E d \in DOMAIN files : d # sanitize_url(req) /\ files[d] = EmptyDir

\* C20 (termination and no starvation): when every fetch returns or fails
\* and the threads are scheduled, a future that is queued or running always
\* belongs to the run in progress, and a run in progress returns with every
\* future finished: each queued future is started, each started one ends.
C20_Termination ==
    /\ [](\A i \in DOMAIN futures : futures[i].st # "done" => pc # "idle")
    /\ (pc # "idle")
          ~> (pc = "idle" /\ \A i \in DOMAIN futures : futures[i].st = "done")

\* C20 witness: a run with more candidates than the pool has threads
\* returned.
C20_Witness ==
    /\ pc = "idle"
    /\ Len(futures) > max_workers
    /\ \A i \in DOMAIN futures : futures[i].st = "done"
    /\ Last(responses).kind = "miss"

====
